---- MODULE Spec2Model ----
(***************************************************************************)
(* The gcloud command execution layer of the GCloudTool:                   *)
(*   GCloudOperations.executeCommand  (src/tools/GCloudTool/operations.ts) *)
(*   GCloudApiClient.executeCommand, runCommand, handleProcessOutput,      *)
(*   killProcess, cancelExecution     (src/tools/GCloudTool/GCloudApiClient.ts) *)
(* One call of the facade is followed from its availability probe to the   *)
(* result it returns, together with the events of the child process        *)
(* (data, exit, close, error), the deadline timer and cancelExecution.     *)
(* Three smaller specifications follow single parts: SpecCapture the       *)
(* capture of output under every chunking, SpecProbe the two commands of   *)
(* getAuthenticationStatus, SpecFormat the argument list given to spawn.   *)
(*                                                                         *)
(* Optional JavaScript values are sequences: << >> is undefined/null and   *)
(* <<v>> is the value v.  Text is a sequence of characters; "M" stands for *)
(* the text of one of the authentication markers of checkForAuthError and  *)
(* "W" for the same text in upper case.                                    *)
(***************************************************************************)
EXTENDS Integers, Sequences, FiniteSets, TLC

\* ------------------------------------------------------------------ bounds
\* data events delivered to one execution
MaxData == 3
\* calls of cancelExecution on one execution
MaxCancels == 2
\* data events and calls of cancelExecution of each of two concurrent runs
MaxPairData == 1
MaxPairCancels == 1
\* data events of one run in the capture specification
MaxCaptureData == 2
\* characters in one chunk of the capture specification
MaxChunkLen == 2

\* the executions (calls) that exist; Spec runs the first alone
Execs == {"e1", "e2"}
Active == {"e1"}

\* exit codes a process reports
ExitCodes == {0, 1, 255}
\* the code of the close event after a failed spawn (a negative errno)
SpawnErrno == 0 - 2

\* the chunks the data events of the lifecycle carry: a plain line, a line
\* with an authentication marker, two lines in one chunk
LifecycleChunks ==
    { <<"a", "\n">>, <<"M", "\n">>, <<"W", "\n">>, <<"a", "\n", "a", "\n">> }

\* the characters of the capture specification: text, and a line terminator
CaptureChars == {"[", "]", "\n"}
\* every chunk of at most MaxChunkLen characters
CaptureChunks == UNION {[1..n -> CaptureChars] : n \in 1..MaxChunkLen}
\* stderr chunks of the capture specification: whole lines, and a line without its
\* terminator
CaptureErrChunks == LifecycleChunks \cup {<<"a">>}

\* calls of GCloudTool.call, one after the other
MaxToolCalls == 2
\* entries of the credential list read by the probe
MaxAccounts == 2
\* calls of getAuthenticationStatus
MaxProbes == 2

\* results of the `gcloud version` probe: exit code 0, another exit code, error event
AvailOutcomes == {"exit0", "exitNonZero", "error"}
\* results of spawn('gcloud', args, options): a child with a pid, a child
\* without pid (the spawn failed, an error event follows), an exception
SpawnOutcomes == {"ok", "nopid", "throws"}
\* a normal process exits on its own or when signalled; a stubborn one ignores
\* SIGTERM and does not exit on its own
ProcKinds == {"normal", "stubborn"}
\* GCloudInput.workingDirectory: not declared, an existing directory, a missing one
WorkingDirs == {"none", "exists", "missing"}

VARIABLES
    input,      \* input[e]: the GCloudInput of the call
    call,       \* call[e]: position and outcome of the facade and api-client call
    execution,  \* execution[e]: the CommandExecution record
    run,        \* run[e]: the closure of runCommand: child process, timer, promise, line counters
    now,        \* the clock read by new Date()
    probe,      \* the call of getAuthenticationStatus: position, accounts read, result
    tool,       \* the call of GCloudTool.call: position, gate, result
    prepared    \* the text of a command, what prepareCommand makes of it, the validation

vars == <<input, call, execution, run, now, probe, tool, prepared>>

\* ------------------------------------------------------------- ExecutionStatus
Pending == "pending"
Running == "running"
Completed == "completed"
Failed == "failed"
Cancelled == "cancelled"

IsTerminal(s) == s \in {Completed, Failed, Cancelled}

\* ------------------------------------------------------------- pure helpers

RECURSIVE SplitFrom(_, _, _)
\* String.prototype.split(/\r?\n/): the segments between terminators, empty ones included
SplitFrom(s, i, cur) ==
    IF i > Len(s) THEN <<cur>>
    ELSE IF s[i] = "\n" THEN <<cur>> \o SplitFrom(s, i + 1, << >>)
    ELSE IF s[i] = "\r" /\ i < Len(s) /\ s[i + 1] = "\n"
         THEN <<cur>> \o SplitFrom(s, i + 2, << >>)
    ELSE SplitFrom(s, i + 1, Append(cur, s[i]))

\* data.toString().split(/\r?\n/).filter(Boolean)
ChunkLines(chunk) == SelectSeq(SplitFrom(chunk, 1, << >>), LAMBDA l : l # << >>)

\* line.toLowerCase(), one character at a time
ToLowerCase(c) == IF c = "W" THEN "M" ELSE c

\* a checkForAuthError that compares the line as it is
checkForAuthErrorCaseSensitive(stderr) ==
    \E k \in 1..Len(stderr) : \E i \in 1..Len(stderr[k]) : stderr[k][i] = "M"

\* checkForAuthError: some line, in lower case, contains one of the patterns
checkForAuthError(stderr) ==
    \E k \in 1..Len(stderr) : \E i \in 1..Len(stderr[k]) :
        ToLowerCase(stderr[k][i]) = "M"

\* a close handler that records the code as reported: nothing for a signalled process
ExitCodeAsReported(code) == code

\* execution.exitCode = code || 0
ExitCodeOf(code) == IF code = << >> \/ code = <<0>> THEN <<0>> ELSE code

\* the status the close handler sets
CloseStatus(cancelled, code) ==
    IF cancelled THEN Cancelled
    ELSE IF code = <<0>> THEN Completed
    ELSE Failed

\* the status the deadline handler sets
TimeoutStatus == Failed

\* a guard that forgets the status
CancelAllowedPidOnly(ex) == ex.pid # << >>

\* cancelExecution goes on only for a Running execution with a pid
CancelAllowed(ex) == ex.status = Running /\ ex.pid # << >>

\* a check that never finds the directory missing
WorkingDirNotChecked(inp) == FALSE

\* command.workingDirectory && !existsSync(command.workingDirectory)
WorkingDirMissing(inp) == inp.wd = "missing"

\* isGCloudAvailable: error -> false, exit -> code === 0
IsAvailable(outcome) == outcome = "exit0"

\* ------------------------------------------------------------- the command
\* A command line is the sequence of its words.
\* commands whose first word is in this list are taken not to support JSON output
nonJsonCommands ==
    {"init", "components", "feedback", "help", "topic", "version",
     "alpha", "beta", "docker", "emulators", "interactive"}

detectJsonSupport(args) == ~(Len(args) > 0 /\ args[1] \in nonJsonCommands)

\* prepareCommand: the "gcloud" prefix is added when missing, args are the words
\* after it
prepareCommand(inp) ==
    LET fullCommand == IF Len(inp.command) > 1 /\ Head(inp.command) = "gcloud"
                       THEN inp.command
                       ELSE <<"gcloud">> \o inp.command
        args == Tail(fullCommand)
    IN  [command |-> fullCommand, args |-> args, supportsJson |-> detectJsonSupport(args)]

\* ------------------------------------------------------------- command text
\* The text of a command, one character at a time.  "G" stands for the six
\* letters gcloud, "v" for the word version (a member of nonJsonCommands), "p"
\* for the word projects; " " and "\t" are white space (\s).
MaxCommandLen == 4
CommandChars == {"G", " ", "\t", "v", "p"}
WhiteSpace == {" ", "\t"}
RECURSIVE TextsUpTo(_)
TextsUpTo(n) ==
    IF n = 0 THEN {<< >>}
    ELSE LET shorter == TextsUpTo(n - 1)
         IN  shorter \cup {Append(t, c) : t \in {u \in shorter : Len(u) = n - 1},
                                          c \in CommandChars}
CommandTexts == TextsUpTo(MaxCommandLen)

\* text.startsWith('gcloud ')
StartsWithGcloudSpace(text) == Len(text) >= 2 /\ text[1] = "G" /\ text[2] = " "

\* index of the first character of text at or after i that is not white space
RECURSIVE SkipWhiteSpace(_, _)
SkipWhiteSpace(text, i) ==
    IF i <= Len(text) /\ text[i] \in WhiteSpace THEN SkipWhiteSpace(text, i + 1) ELSE i

\* text.replace(/^gcloud\s+/, '')
StripGcloud(text) ==
    IF Len(text) >= 2 /\ text[1] = "G" /\ text[2] \in WhiteSpace
    THEN SubSeq(text, SkipWhiteSpace(text, 2), Len(text))
    ELSE text

\* text.split(/\s+/): the pieces between the runs of white space, the empty
\* pieces at either end included
RECURSIVE SplitWhiteSpace(_, _, _)
SplitWhiteSpace(text, i, cur) ==
    IF i > Len(text) THEN <<cur>>
    ELSE IF text[i] \in WhiteSpace
         THEN <<cur>> \o SplitWhiteSpace(text, SkipWhiteSpace(text, i), << >>)
    ELSE SplitWhiteSpace(text, i + 1, Append(cur, text[i]))

\* the members of nonJsonCommands the texts of the model can spell
nonJsonTokens == {<<"v">>}

\* detectJsonSupport on the tokens of a text
detectJsonSupportText(args) == ~(Len(args) > 0 /\ args[1] \in nonJsonTokens)

\* prepareCommand on the text of input.command
prepareCommandText(text) ==
    LET fullCommand == IF StartsWithGcloudSpace(text) THEN text
                       ELSE <<"G", " ">> \o text
        args == SplitWhiteSpace(StripGcloud(fullCommand), 1, << >>)
    IN  [command |-> fullCommand, args |-> args,
         supportsJson |-> detectJsonSupportText(args)]

\* the validation at the head of GCloudApiClient.executeCommand
CommandAccepted(command) == StartsWithGcloudSpace(command.command)

\* the words for which arg.startsWith('--format=') holds, among those of the model
FormatFlags == {"--format=json", "--format=yaml"}

\* the argument list runCommand hands to spawn: the words of the command after
\* "gcloud", with --format=json appended under the conditions of lines 103-108
SpawnArgs(inp) ==
    LET command == prepareCommand(inp)
        args == Tail(command.command)
        requested == \/ inp.preferJsonOutput
                     \/ \E i \in 1..Len(command.args) : command.args[i] = "--format=json"
    IN  IF command.supportsJson /\ requested
            /\ ~\E i \in 1..Len(args) : args[i] \in FormatFlags
        THEN Append(args, "--format=json")
        ELSE args

\* An environment is a function from the names it defines to their values.
EnvNames == {"PATH", "CLOUDSDK_CORE_PROJECT"}
EnvValues == {"v1", "v2"}
Envs == UNION {[names -> EnvValues] : names \in SUBSET EnvNames}
NoEnv == << >>

\* a merge in which the first environment wins
MergeFirstWins(caller, spec) ==
    [k \in DOMAIN caller \cup DOMAIN spec |->
        IF k \in DOMAIN caller THEN caller[k] ELSE spec[k]]

\* { ...caller, ...spec }: a new object with the entries of both, those of the second
\* written over those of the first
Merge(caller, spec) ==
    [k \in DOMAIN caller \cup DOMAIN spec |->
        IF k \in DOMAIN spec THEN spec[k] ELSE caller[k]]

\* spawnOptions.env
SpawnEnv(inp) == Merge(inp.processEnv, inp.environment)

\* the format preference of the input
Formats == {"json", "raw", "auto"}

\* the command of the lifecycle specification
ListCommand == <<"projects", "list">>
\* the commands of the capture specification: one that supports JSON, one that does
\* not
CaptureCommands == {ListCommand, <<"version">>}
\* the commands of the format specification: with and without the prefix, with and
\* without a format flag, one that does not support JSON
FormatCommands ==
    { <<"projects", "list">>, <<"gcloud", "projects", "list">>,
      <<"projects", "list", "--format=json">>, <<"projects", "list", "--format=yaml">>,
      <<"version">> }

\* ------------------------------------------------------------- JSON text
\* stdout.join(''): the lines one after the other, nothing between them
RECURSIVE Join(_)
Join(lines) == IF lines = << >> THEN << >> ELSE Head(lines) \o Join(Tail(lines))

\* JSON texts are sequences of tokens: "[", "]" and "," as in JSON, and one token for
\* each of the values gcloud prints: an account object, a string, a number
AccountObjects ==
    [A |-> [account |-> "a", status |-> "ACTIVE"],
     b |-> [account |-> "b", status |-> ""],
     c |-> [account |-> "c", status |-> ""]]
JsonStrings == [P |-> "p", U |-> "(unset)"]
JsonAtoms == DOMAIN AccountObjects \cup DOMAIN JsonStrings \cup {"0"}

JsonAtom(tok) ==
    IF tok \in DOMAIN AccountObjects
    THEN [kind |-> "object", account |-> <<AccountObjects[tok].account>>,
          status |-> <<AccountObjects[tok].status>>, items |-> << >>]
    ELSE IF tok \in DOMAIN JsonStrings
    THEN [kind |-> "string", account |-> << >>, status |-> << >>,
          items |-> <<JsonStrings[tok]>>]
    ELSE [kind |-> "number", account |-> << >>, status |-> << >>, items |-> << >>]
JsonArray(items) ==
    [kind |-> "array", account |-> << >>, status |-> << >>, items |-> items]
ParseFail == [ok |-> FALSE, next |-> 0, value |-> JsonArray(<< >>)]

\* JSON.parse, by recursive descent: a value is an atom or a bracketed list of values
\* separated by commas; the whole text must be one value
RECURSIVE ParseValue(_, _), ParseItems(_, _, _)
ParseValue(t, i) ==
    IF i > Len(t) THEN ParseFail
    ELSE IF t[i] \in JsonAtoms THEN [ok |-> TRUE, next |-> i + 1, value |-> JsonAtom(t[i])]
    ELSE IF t[i] # "[" THEN ParseFail
    ELSE IF i + 1 <= Len(t) /\ t[i + 1] = "]"
    THEN [ok |-> TRUE, next |-> i + 2, value |-> JsonArray(<< >>)]
    ELSE ParseItems(t, i + 1, << >>)
ParseItems(t, i, acc) ==
    LET v == ParseValue(t, i) IN
    IF ~v.ok \/ v.next > Len(t) THEN ParseFail
    ELSE IF t[v.next] = "]"
    THEN [ok |-> TRUE, next |-> v.next + 1, value |-> JsonArray(Append(acc, v.value))]
    ELSE IF t[v.next] = ","
    THEN ParseItems(t, v.next + 1, Append(acc, v.value))
    ELSE ParseFail
\* << >> when JSON.parse throws, <<value>> otherwise
JsonParse(t) ==
    LET v == ParseValue(t, 1) IN
    IF v.ok /\ v.next = Len(t) + 1 THEN <<v.value>> ELSE << >>

\* a facade that parses the first stdout line alone
StructuredOutputFirstLine(command, stdout) ==
    IF command.supportsJson /\ Len(stdout) > 0 THEN JsonParse(Head(stdout)) ELSE << >>

\* structuredOutput of the facade: the parse of the joined stdout lines of a command
\* that supports JSON, undefined when there is no line or the parse throws
StructuredOutput(command, stdout) ==
    IF command.supportsJson /\ Len(stdout) > 0 THEN JsonParse(Join(stdout)) ELSE << >>

\* ------------------------------------------------------------- errors and results
\* the suggestion lists of the two errors that carry one
InstallSuggestions == {"Install Google Cloud SDK", "Add gcloud to your PATH"}
LoginSuggestions ==
    {"Run \"gcloud auth login\" to authenticate",
     "Run \"gcloud auth application-default login\" for application default credentials"}

NoError == [message |-> "none", exitCode |-> << >>, authenticationRequired |-> << >>,
            suggestions |-> {}]

GCloudError(message, exitCode, authenticationRequired, suggestions) ==
    [message |-> message, exitCode |-> exitCode,
     authenticationRequired |-> authenticationRequired, suggestions |-> suggestions]

NotFoundError == GCloudError("sdk-not-found", << >>, <<FALSE>>, InstallSuggestions)
WorkingDirError == GCloudError("working-directory-missing", << >>, << >>, {})
TimeoutError == GCloudError("timed-out", << >>, << >>, {})
AuthError(code) == GCloudError("authentication-required", code, <<TRUE>>, LoginSuggestions)
ProcessError == GCloudError("process-error", << >>, << >>, {})
StartError == GCloudError("failed-to-start", << >>, << >>, {})

\* the errors executeCommand throws before it creates the execution
PreSpawnMessages == {"sdk-not-found", "working-directory-missing"}

NoResult == [kind |-> "none", success |-> FALSE, error |-> "none", exitCode |-> << >>,
             cancelled |-> << >>, authenticationRequired |-> << >>, suggestions |-> {},
             executionTime |-> FALSE, stdout |-> << >>, structuredOutput |-> << >>]

\* the record GCloudOperations.executeCommand returns when the probe says false
FacadeNotFound ==
    [kind |-> "returned", success |-> FALSE, error |-> "sdk-not-found", exitCode |-> << >>,
     cancelled |-> << >>, authenticationRequired |-> << >>,
     suggestions |-> InstallSuggestions,
     executionTime |-> FALSE, stdout |-> << >>, structuredOutput |-> << >>]

\* the record built from the execution the api client resolved with
FacadeResolved(ex, command) ==
    [kind |-> "returned", success |-> (ex.status = Completed), error |-> "none",
     exitCode |-> ex.exitCode, cancelled |-> <<ex.cancelled>>,
     authenticationRequired |-> << >>, suggestions |-> {}, executionTime |-> TRUE,
     stdout |-> <<ex.stdout>>,
     structuredOutput |-> StructuredOutput(command, ex.stdout)]

\* a facade without its catch block: the error escapes
FacadeRethrows(err) ==
    [kind |-> "thrown", success |-> FALSE, error |-> err.message, exitCode |-> err.exitCode,
     cancelled |-> << >>, authenticationRequired |-> err.authenticationRequired,
     suggestions |-> err.suggestions, executionTime |-> FALSE,
     stdout |-> << >>, structuredOutput |-> << >>]

\* the catch block: a GCloudError becomes a result record
FacadeCaught(err) ==
    [kind |-> "returned", success |-> FALSE, error |-> err.message, exitCode |-> err.exitCode,
     cancelled |-> << >>, authenticationRequired |-> err.authenticationRequired,
     suggestions |-> err.suggestions, executionTime |-> FALSE,
     stdout |-> << >>, structuredOutput |-> << >>]

\* ------------------------------------------------------------- initial state
NoExecution ==
    [status |-> "absent", cancelled |-> FALSE, endTime |-> << >>, exitCode |-> << >>,
     stdout |-> << >>, stderr |-> << >>, pid |-> << >>]

NoRun ==
    [proc |-> "none", kind |-> "normal", code |-> << >>, timer |-> "unset",
     promise |-> "none", sigterm |-> 0, sigkill |-> 0,
     stdoutLineNumber |-> 0, stderrLineNumber |-> 0,
     stdoutNums |-> << >>, stderrNums |-> << >>,
     stdoutRaw |-> << >>, stderrRaw |-> << >>,
     data |-> 0, cancels |-> 0, cancelsOnTerminal |-> 0, cancelRet |-> "none",
     runningEntries |-> 0, spawnArgs |-> << >>, spawnEnv |-> << >>]

NoCall ==
    [pc |-> "idle", facadeSpawned |-> 0, apiSpawned |-> 0,
     api |-> "none", apiError |-> NoError, result |-> NoResult]

\* getAuthenticationStatus before it is called; optional values are sequences
NoStatus ==
    [isAuthenticated |-> FALSE, activeAccount |-> << >>, availableAccounts |-> << >>,
     defaultProject |-> << >>, lastChecked |-> << >>]
NoProbe ==
    [pc |-> "idle", first |-> "none", second |-> "none", accounts |-> << >>,
     probes |-> 0, result |-> NoStatus]

\* a command text before prepareCommand is applied to it
NoPrepared ==
    [pc |-> "none", text |-> << >>, command |-> << >>, args |-> << >>,
     supportsJson |-> FALSE, accepted |-> FALSE]

\* GCloudTool.call before it is called
NoTool ==
    [pc |-> "idle", calls |-> 0, exec |-> "e1", startedAt |-> 0, gate |-> "none",
     statusChecked |-> << >>, result |-> NoResult]

Init ==
    /\ input \in [Execs -> [wd : WorkingDirs, command : {ListCommand},
                             preferJsonOutput : {FALSE}, format : {"auto"},
                             environment : {NoEnv}, processEnv : {NoEnv}]]
    /\ \A e \in Execs \ Active : input[e].wd = "none"
    /\ call = [e \in Execs |-> NoCall]
    /\ execution = [e \in Execs |-> NoExecution]
    /\ run = [e \in Execs |-> NoRun]
    /\ now = 1
    /\ probe = NoProbe
    /\ tool = NoTool
    /\ prepared = NoPrepared

\* ------------------------------------------------------------- the call
\* what the facade makes of the outcome of apiClient.executeCommand
FacadeOutcome(kind, ex, err, command) ==
    IF kind = "resolved" THEN FacadeResolved(ex, command) ELSE FacadeCaught(err)

\* resolve(execution) / reject(error): the first call settles the promise of
\* runCommand; executeCommand passes the outcome on (a GCloudError is rethrown as
\* it is) and the facade builds its result in the same turn of the event loop.
\* A later resolve or reject changes nothing.
Settled(e, r, ex, kind, err) ==
    IF r.promise = "pending"
    THEN /\ run' = [run EXCEPT ![e] = [r EXCEPT !.promise = kind]]
         /\ call' = [call EXCEPT ![e].pc = "done", ![e].api = kind, ![e].apiError = err,
                                 ![e].result =
                                     FacadeOutcome(kind, ex, err, prepareCommand(input[e]))]
    ELSE /\ run' = [run EXCEPT ![e] = r]
         /\ call' = call

\* the call after the facade spawned `gcloud version`
FacadeStarted(e) == [call EXCEPT ![e].pc = "facadeAvail", ![e].facadeSpawned = @ + 1]

\* GCloudOperations.executeCommand up to its first await: isGCloudAvailable()
\* spawns `gcloud version`
FacadeStart(e) ==
    /\ call[e].pc = "idle"
    /\ call' = FacadeStarted(e)
    /\ UNCHANGED <<prepared, tool, probe, input, execution, run, now>>

\* the probe of the facade ends: not available -> the not-found record; available ->
\* prepareCommand and apiClient.executeCommand up to its await of isGCloudAvailable()
FacadeAvailDone(e, outcome) ==
    /\ call[e].pc = "facadeAvail"
    /\ IF IsAvailable(outcome)
       THEN call' = [call EXCEPT ![e].pc = "apiAvail", ![e].api = "pending",
                                 ![e].apiSpawned = @ + 1]
       ELSE call' = [call EXCEPT ![e].pc = "done", ![e].result = FacadeNotFound]
    /\ UNCHANGED <<prepared, tool, probe, input, execution, run, now>>

\* executeCommand throws before the execution exists
ThrowBeforeSpawn(e, err) ==
    /\ call' = [call EXCEPT ![e].pc = "done", ![e].api = "rejected", ![e].apiError = err,
                            ![e].result = FacadeOutcome("rejected", NoExecution, err,
                                                        prepareCommand(input[e]))]
    /\ UNCHANGED <<execution, run, now>>

\* the execution executeCommand creates
NewExecution ==
    [status |-> Pending, cancelled |-> FALSE, endTime |-> << >>, exitCode |-> << >>,
     stdout |-> << >>, stderr |-> << >>, pid |-> << >>]

\* runCommand up to the end of the promise executor: spawn, pid, Running, the timer
\* and the listeners; or the catch block when spawn throws
StartRun(e, spawnOutcome, kind) ==
    IF spawnOutcome = "throws"
    THEN /\ execution' = [execution EXCEPT ![e] =
                [NewExecution EXCEPT !.status = Failed, !.endTime = <<now>>]]
         /\ now' = now + 1
         /\ Settled(e, [run[e] EXCEPT !.promise = "pending",
                                      !.spawnArgs = <<SpawnArgs(input[e])>>,
                                      !.spawnEnv = <<SpawnEnv(input[e])>>],
                    execution'[e], "rejected", StartError)
    ELSE /\ execution' = [execution EXCEPT ![e] =
                [NewExecution EXCEPT !.status = Running,
                                     !.pid = IF spawnOutcome = "ok" THEN <<1>> ELSE << >>]]
         /\ run' = [run EXCEPT ![e] =
                [@ EXCEPT !.promise = "pending", !.timer = "armed", !.kind = kind,
                          !.proc = IF spawnOutcome = "ok" THEN "alive" ELSE "spawnFailed",
                          !.runningEntries = @ + 1,
                          !.spawnArgs = <<SpawnArgs(input[e])>>,
                          !.spawnEnv = <<SpawnEnv(input[e])>>]]
         /\ call' = [call EXCEPT ![e].pc = "running",
                                 ![e].apiSpawned = IF spawnOutcome = "ok" THEN @ + 1 ELSE @]
         /\ now' = now

\* the probe of executeCommand ends: not available -> throws; working directory
\* missing -> throws; otherwise the execution is created and runCommand starts
ApiAvailDone(e, outcome, spawnOutcome, kind) ==
    /\ call[e].pc = "apiAvail"
    /\ IF ~IsAvailable(outcome) THEN ThrowBeforeSpawn(e, NotFoundError)
       ELSE IF WorkingDirMissing(input[e]) THEN ThrowBeforeSpawn(e, WorkingDirError)
       ELSE StartRun(e, spawnOutcome, kind)
    /\ UNCHANGED <<prepared, tool, probe, input>>

\* ------------------------------------------------------------- output capture
\* the numbers lineNumber takes for n lines after the counter stood at c
LineNumbers(c, n) == [k \in 1..n |-> c + k]

\* listeners that share one counter between the two streams
HandleDataSharedCounter(r, stream, n) ==
    IF stream = "stdout"
    THEN [r EXCEPT !.stdoutLineNumber = @ + n,
                   !.stdoutNums = @ \o LineNumbers(r.stdoutLineNumber, n)]
    ELSE [r EXCEPT !.stdoutLineNumber = @ + n,
                   !.stderrNums = @ \o LineNumbers(r.stdoutLineNumber, n)]

\* the 'data' listeners of handleProcessOutput: each stream counts its own lines
HandleData(r, stream, n) ==
    IF stream = "stdout"
    THEN [r EXCEPT !.stdoutLineNumber = @ + n,
                   !.stdoutNums = @ \o LineNumbers(r.stdoutLineNumber, n)]
    ELSE [r EXCEPT !.stderrLineNumber = @ + n,
                   !.stderrNums = @ \o LineNumbers(r.stderrLineNumber, n)]

\* line counters kept in one place for every call
LineCountersShared(e) == "e1"

\* where the line counters read by the listeners of call e live: they are local
\* variables of that call of handleProcessOutput
LineCountersOf(e) == e

\* a chunk arrives on stdout or stderr while the streams are open
DataEvent(e, stream, chunk) ==
    /\ run[e].proc \in {"alive", "exited"}
    /\ run[e].data < MaxData
    /\ LET lines == ChunkLines(chunk)
           o == LineCountersOf(e)
           counted == HandleData([run[e] EXCEPT
                                     !.stdoutLineNumber = run[o].stdoutLineNumber,
                                     !.stderrLineNumber = run[o].stderrLineNumber],
                                 stream, Len(lines))
       IN
       /\ run' = [[run EXCEPT ![e] =
                     [counted EXCEPT
                        !.data = @ + 1,
                        !.stdoutRaw = IF stream = "stdout" THEN @ \o chunk ELSE @,
                        !.stderrRaw = IF stream = "stderr" THEN @ \o chunk ELSE @]]
                  EXCEPT ![o].stdoutLineNumber = counted.stdoutLineNumber,
                         ![o].stderrLineNumber = counted.stderrLineNumber]
       /\ execution' = [execution EXCEPT
                            ![e].stdout = IF stream = "stdout" THEN @ \o lines ELSE @,
                            ![e].stderr = IF stream = "stderr" THEN @ \o lines ELSE @]
    /\ UNCHANGED <<prepared, tool, probe, input, call, now>>

\* ------------------------------------------------------------- process events
\* the codes a live process can end with: an exit code, or null once signalled
EndCodes(r) == {<<c>> : c \in ExitCodes} \cup (IF r.sigterm > 0 THEN {<< >>} ELSE {})

\* the child process ends (the 'close' event follows when its streams have closed)
ProcExit(e, code) ==
    /\ run[e].proc = "alive"
    /\ run[e].kind = "normal"
    /\ code \in EndCodes(run[e])
    /\ run' = [run EXCEPT ![e].proc = "exited", ![e].code = code]
    /\ UNCHANGED <<prepared, tool, probe, input, call, execution, now>>

\* clearTimeout(timeoutId)
ClearTimer(t) == IF t = "armed" THEN "cleared" ELSE t

\* whether the close handler rejects with the authentication error
CloseRejects(ex, code) ==
    /\ ~ex.cancelled
    /\ code # <<0>>
    /\ checkForAuthError(ex.stderr)

\* childProcess.on('close', (code) => ...)
Close(e) ==
    /\ run[e].proc \in {"exited", "errored"}
    /\ LET code == IF run[e].proc = "errored" THEN <<SpawnErrno>> ELSE run[e].code
           ex == [execution[e] EXCEPT !.endTime = <<now>>,
                                      !.exitCode = ExitCodeOf(code),
                                      !.status = CloseStatus(execution[e].cancelled, code)]
           r == [run[e] EXCEPT !.proc = "closed", !.timer = ClearTimer(@)]
       IN /\ execution' = [execution EXCEPT ![e] = ex]
          /\ IF CloseRejects(execution[e], code)
             THEN Settled(e, r, ex, "rejected", AuthError(code))
             ELSE Settled(e, r, ex, "resolved", NoError)
    /\ now' = now + 1
    /\ UNCHANGED <<prepared, tool, probe, input>>

\* childProcess.on('error', ...): the spawn failed
ErrorEvent(e) ==
    /\ run[e].proc = "spawnFailed"
    /\ LET ex == [execution[e] EXCEPT !.status = Failed, !.endTime = <<now>>]
           r == [run[e] EXCEPT !.proc = "errored", !.timer = ClearTimer(@)]
       IN /\ execution' = [execution EXCEPT ![e] = ex]
          /\ Settled(e, r, ex, "rejected", ProcessError)
    /\ now' = now + 1
    /\ UNCHANGED <<prepared, tool, probe, input>>

\* killProcess: SIGTERM to the child when it has a pid (and still runs)
KillProcess(r, ex) ==
    IF ex.pid # << >> /\ r.proc = "alive" THEN [r EXCEPT !.sigterm = @ + 1] ELSE r

\* the deadline timer fires
TimerFire(e) ==
    /\ run[e].timer = "armed"
    /\ run[e].proc \in {"alive", "exited"}
    /\ LET ex == [execution[e] EXCEPT !.status = TimeoutStatus]
           r == [KillProcess(run[e], execution[e]) EXCEPT !.timer = "fired"]
       IN /\ execution' = [execution EXCEPT ![e] = ex]
          /\ Settled(e, r, ex, "rejected", TimeoutError)
    /\ UNCHANGED <<prepared, tool, probe, input, now>>

\* cancelExecution(execution), called by whoever holds the record
CancelExecution(e) ==
    /\ execution[e].status # "absent"
    /\ run[e].cancels < MaxCancels
    /\ IF ~CancelAllowed(execution[e])
       THEN /\ run' = [run EXCEPT ![e].cancels = @ + 1, ![e].cancelRet = "false",
                                  ![e].cancelsOnTerminal =
                                      IF IsTerminal(execution[e].status) THEN @ + 1 ELSE @]
            /\ UNCHANGED <<execution, now>>
       ELSE IF run[e].proc = "alive"
       THEN /\ run' = [run EXCEPT ![e].cancels = @ + 1, ![e].cancelRet = "true",
                                  ![e].sigterm = @ + 1]
            /\ execution' = [execution EXCEPT ![e].cancelled = TRUE,
                                              ![e].status = Cancelled,
                                              ![e].endTime = <<now>>]
            /\ now' = now + 1
       ELSE \* process.kill throws: the process is gone
            /\ run' = [run EXCEPT ![e].cancels = @ + 1, ![e].cancelRet = "false"]
            /\ UNCHANGED <<execution, now>>
    /\ UNCHANGED <<prepared, tool, probe, input, call>>

\* ------------------------------------------------------------- specification
Step(e) ==
    \/ FacadeStart(e)
    \/ \E o \in AvailOutcomes : FacadeAvailDone(e, o)
    \/ \E o \in AvailOutcomes, s \in SpawnOutcomes, k \in ProcKinds : ApiAvailDone(e, o, s, k)
    \/ \E stream \in {"stdout", "stderr"}, chunk \in LifecycleChunks : DataEvent(e, stream, chunk)
    \/ \E code \in EndCodes(run[e]) : ProcExit(e, code)
    \/ Close(e)
    \/ ErrorEvent(e)
    \/ TimerFire(e)
    \/ CancelExecution(e)

Next == \E e \in Active : Step(e)

Spec == Init /\ [][Next]_vars

\* The event loop delivers every pending event: a probe that ended, the error of a
\* failed spawn, the close of a process that ended, a deadline that is due; and a
\* normal process ends.  Data events and calls of cancelExecution are not owed.
Fairness ==
    \A e \in Active :
        /\ WF_vars(\E o \in AvailOutcomes : FacadeAvailDone(e, o))
        /\ WF_vars(\E o \in AvailOutcomes, s \in SpawnOutcomes, k \in ProcKinds :
                        ApiAvailDone(e, o, s, k))
        /\ WF_vars(\E code \in EndCodes(run[e]) : ProcExit(e, code))
        /\ WF_vars(Close(e))
        /\ WF_vars(ErrorEvent(e))
        /\ WF_vars(TimerFire(e))

FairSpec == Spec /\ Fairness

\* ------------------------------------------------------------- a probe that never exits
\* The process isGCloudAvailable spawned is one that neither exits nor raises an
\* error event: the promise of isGCloudAvailable stays pending, nothing else
\* settles it.
AvailHangs(e) ==
    /\ call[e].pc \in {"facadeAvail", "apiAvail"}
    /\ call' = [call EXCEPT ![e].pc = IF @ = "facadeAvail" THEN "facadeAvailHung"
                                      ELSE "apiAvailHung"]
    /\ UNCHANGED <<prepared, tool, probe, input, execution, run, now>>

NextSettle == \E e \in Active : Step(e) \/ AvailHangs(e)

SpecSettle == Init /\ [][NextSettle]_vars

\* the events of Fairness, which the event loop delivers
FairSpecSettle == SpecSettle /\ Fairness

\* ------------------------------------------------------------- the authentication probe
\* what `gcloud auth list --format=json` prints for a list of account tokens
RECURSIVE RenderItems(_)
RenderItems(toks) ==
    IF toks = << >> THEN << >>
    ELSE IF Len(toks) = 1 THEN toks
    ELSE <<Head(toks), ",">> \o RenderItems(Tail(toks))
RenderList(toks) == <<"[">> \o RenderItems(toks) \o <<"]">>
AccountLists ==
    {toks \in UNION {[1..n -> DOMAIN AccountObjects] : n \in 0..MaxAccounts} :
        \A i, j \in 1..Len(toks) : i # j => toks[i] # toks[j]}

\* stdout of the first command: a rendered list on one line, a list cut into two
\* lines, nothing, a list cut short, a value that is not a list
ListStdouts ==
    {<<RenderList(toks)>> : toks \in AccountLists}
        \cup { << >>, << <<"[", "b">>, <<",", "A", "]">> >>, << <<"[", "A">> >>,
               << <<"0">> >> }
\* stdout of the second command: a project, the unset sentinel, nothing, broken text
ProjectStdouts == { << <<"P">> >>, << <<"U">> >>, << >>, << <<"[">> >> }

\* how a call of executeCommand can end for its caller: rejected, or resolved with an
\* execution in one of the statuses the close handler assigns
ExecOutcomes(stdouts) ==
    {[kind |-> "rejected", status |-> Failed, stdout |-> << >>]}
        \cup [kind : {"resolved"}, status : {Completed, Failed, Cancelled}, stdout : stdouts]

NotAuthenticated(t) ==
    [isAuthenticated |-> FALSE, activeAccount |-> << >>, availableAccounts |-> << >>,
     defaultProject |-> << >>, lastChecked |-> <<t>>]

\* accounts.find(acc => acc.status === 'ACTIVE')?.account
RECURSIVE FindActive(_)
FindActive(accounts) ==
    IF accounts = << >> THEN << >>
    ELSE IF Head(accounts).status = <<"ACTIVE">> THEN Head(accounts).account
    ELSE FindActive(Tail(accounts))

\* how a step of the probe ended, for the properties: the command did not end
\* Completed, its output did not parse, or it went through
StepOutcome(o, parsed) ==
    IF o.kind = "rejected" \/ o.status # Completed THEN "failed"
    ELSE IF parsed = << >> THEN "unparsed"
    ELSE "ok"

\* a call of getAuthenticationStatus, the first or a later one
ProbeStart ==
    /\ probe.pc \in {"idle", "done"}
    /\ probe.probes < MaxProbes
    /\ probe' = [NoProbe EXCEPT !.pc = "listing", !.probes = probe.probes + 1]
    /\ UNCHANGED <<prepared, tool, input, call, execution, run, now>>

\* the first executeCommand settles: lines 294-325
ListDone(o) ==
    /\ probe.pc = "listing"
    /\ LET parsed == JsonParse(Join(o.stdout))
           first == StepOutcome(o, parsed)
       IN  IF first # "ok"
           THEN /\ probe' = [probe EXCEPT !.pc = "done", !.first = first,
                                          !.result = NotAuthenticated(now)]
                /\ now' = now + 1
           ELSE IF parsed[1].kind # "array"
           \* accounts.find is not a function: a TypeError, caught at line 356
           THEN /\ probe' = [probe EXCEPT !.pc = "done", !.first = "unparsed",
                                          !.result = NotAuthenticated(now)]
                /\ now' = now + 1
           ELSE /\ probe' = [probe EXCEPT !.pc = "project", !.first = "ok",
                                          !.accounts = parsed[1].items]
                /\ now' = now
    /\ UNCHANGED <<prepared, tool, input, call, execution, run>>

\* the second executeCommand settles: lines 328-355
ProjectDone(o) ==
    /\ probe.pc = "project"
    /\ LET parsed == JsonParse(Join(o.stdout))
           second == StepOutcome(o, parsed)
           defaultProject ==
               IF second # "ok" THEN << >>
               ELSE IF parsed[1].kind = "string" /\ parsed[1].items = <<"(unset)">>
               THEN << >>
               ELSE IF parsed[1].kind = "string" THEN parsed[1].items
               ELSE <<parsed[1].kind>>
       IN  IF o.kind = "rejected"
           THEN probe' = [probe EXCEPT !.pc = "done", !.second = second,
                                       !.result = NotAuthenticated(now)]
           ELSE probe' = [probe EXCEPT
                    !.pc = "done", !.second = second,
                    !.result =
                        [isAuthenticated |-> Len(probe.accounts) > 0,
                         activeAccount |-> FindActive(probe.accounts),
                         availableAccounts |->
                             [i \in 1..Len(probe.accounts) |-> probe.accounts[i].account],
                         defaultProject |-> defaultProject,
                         lastChecked |-> <<now>>]]
    /\ now' = now + 1
    /\ UNCHANGED <<prepared, tool, input, call, execution, run>>

InitProbe ==
    /\ input = [e \in Execs |->
                    [wd |-> "none", command |-> ListCommand, preferJsonOutput |-> FALSE,
                     format |-> "auto", environment |-> NoEnv, processEnv |-> NoEnv]]
    /\ call = [e \in Execs |-> NoCall]
    /\ execution = [e \in Execs |-> NoExecution]
    /\ run = [e \in Execs |-> NoRun]
    /\ now = 1
    /\ probe = NoProbe
    /\ tool = NoTool
    /\ prepared = NoPrepared

NextProbe ==
    \/ ProbeStart
    \/ \E o \in ExecOutcomes(ListStdouts) : ListDone(o)
    \/ \E o \in ExecOutcomes(ProjectStdouts) : ProjectDone(o)

SpecProbe == InitProbe /\ [][NextProbe]_vars

\* ------------------------------------------------------------- format injection
\* two calls, with every pair of commands and preferences
InitFormat ==
    /\ input \in [Execs -> [wd : {"none"}, command : FormatCommands,
                             preferJsonOutput : BOOLEAN, format : Formats,
                             environment : {NoEnv}, processEnv : {NoEnv}]]
    /\ \A e \in Execs \ Active : input[e].format = "auto"
    /\ call = [e \in Execs |-> NoCall]
    /\ execution = [e \in Execs |-> NoExecution]
    /\ run = [e \in Execs |-> NoRun]
    /\ now = 1
    /\ probe = NoProbe
    /\ tool = NoTool
    /\ prepared = NoPrepared

NextFormat ==
    \E e \in Execs :
        \/ FacadeStart(e)
        \/ \E o \in AvailOutcomes : FacadeAvailDone(e, o)
        \/ \E o \in AvailOutcomes, s \in SpawnOutcomes : ApiAvailDone(e, o, s, "normal")
        \/ \E code \in EndCodes(run[e]) : ProcExit(e, code)
        \/ ErrorEvent(e)
        \/ Close(e)

SpecFormat == InitFormat /\ [][NextFormat]_vars

\* ------------------------------------------------------------- the environment
\* the first call with every pair of environments of the process and of the input
InitEnv ==
    /\ input \in [Execs -> [wd : {"none"}, command : {ListCommand},
                             preferJsonOutput : {FALSE}, format : {"auto"},
                             environment : Envs, processEnv : Envs]]
    /\ \A e \in Execs \ Active :
           input[e].environment = NoEnv /\ input[e].processEnv = NoEnv
    /\ call = [e \in Execs |-> NoCall]
    /\ execution = [e \in Execs |-> NoExecution]
    /\ run = [e \in Execs |-> NoRun]
    /\ now = 1
    /\ probe = NoProbe
    /\ tool = NoTool
    /\ prepared = NoPrepared

SpecEnv == InitEnv /\ [][NextFormat]_vars

\* ------------------------------------------------------------- output capture alone
\* the state runCommand leaves when spawn gave a child with a pid: Running, the timer
\* armed, the listeners registered, nothing received yet
SpawnedCall ==
    [NoCall EXCEPT !.pc = "running", !.api = "pending",
                   !.facadeSpawned = 1, !.apiSpawned = 2]
SpawnedExecution == [NewExecution EXCEPT !.status = Running, !.pid = <<1>>]
SpawnedRun(inp) ==
    [NoRun EXCEPT !.promise = "pending", !.timer = "armed",
                  !.proc = "alive", !.runningEntries = 1,
                  !.spawnArgs = <<SpawnArgs(inp)>>,
                  !.spawnEnv = <<SpawnEnv(inp)>>]

InitCapture ==
    /\ input \in [Execs -> [wd : {"none"}, command : CaptureCommands,
                             preferJsonOutput : {FALSE}, format : {"auto"},
                             environment : {NoEnv}, processEnv : {NoEnv}]]
    /\ \A e \in Execs \ Active : input[e].command = ListCommand
    /\ call = [e \in Execs |-> IF e \in Active THEN SpawnedCall ELSE NoCall]
    /\ execution = [e \in Execs |-> IF e \in Active THEN SpawnedExecution ELSE NoExecution]
    /\ run = [e \in Execs |->
                  IF e \in Active THEN SpawnedRun(input[e]) ELSE NoRun]
    /\ now = 1
    /\ probe = NoProbe
    /\ tool = NoTool
    /\ prepared = NoPrepared

\* the data events of a run with every chunking of its output, its end and its close
NextCapture ==
    \E e \in Active :
        \/ \E chunk \in CaptureChunks :
               run[e].data < MaxCaptureData /\ DataEvent(e, "stdout", chunk)
        \/ \E chunk \in CaptureErrChunks :
               run[e].data < MaxCaptureData /\ DataEvent(e, "stderr", chunk)
        \/ \E code \in EndCodes(run[e]) : ProcExit(e, code)
        \/ Close(e)

SpecCapture == InitCapture /\ [][NextCapture]_vars

\* ------------------------------------------------------------- two runs at once
\* both calls have spawned their process
InitPair ==
    /\ input = [e \in Execs |->
                    [wd |-> "none", command |-> ListCommand, preferJsonOutput |-> FALSE,
                     format |-> "auto", environment |-> NoEnv, processEnv |-> NoEnv]]
    /\ call = [e \in Execs |-> SpawnedCall]
    /\ execution = [e \in Execs |-> SpawnedExecution]
    /\ run = [e \in Execs |-> SpawnedRun(input[e])]
    /\ now = 1
    /\ probe = NoProbe
    /\ tool = NoTool
    /\ prepared = NoPrepared

\* the events of the two runs in any order
NextPair ==
    \E e \in Execs :
        \/ \E stream \in {"stdout", "stderr"} :
               run[e].data < MaxPairData /\ DataEvent(e, stream, <<"a", "\n">>)
        \/ \E code \in EndCodes(run[e]) \cap {<<0>>, <<1>>} : ProcExit(e, code)
        \/ Close(e)
        \/ TimerFire(e)
        \/ run[e].cancels < MaxPairCancels /\ CancelExecution(e)

SpecPair == InitPair /\ [][NextPair]_vars

\* ------------------------------------------------------------- GCloudTool.call
\* commands given to the tool: two of the auth group, one of another group, and one of
\* another group with a word that ends in "auth" before its last word
ToolCommands ==
    { <<"projects", "list">>, <<"auth", "login">>, <<"gcloud", "auth", "list">>,
      <<"compute", "ssh", "my-auth", "--zone=z">> }

\* the words of the model that end in "auth"
WordsEndingInAuth == {"auth", "my-auth"}
\* input.command.startsWith('auth ')
StartsWithAuthSpace(command) == Len(command) > 1 /\ command[1] = "auth"
\* input.command.includes('auth '): a word that ends in "auth" is followed by a space
IncludesAuthSpace(command) ==
    \E i \in 1..(Len(command) - 1) : command[i] \in WordsEndingInAuth

\* the record checkAuthenticationStatus makes of the status of the probe
CheckAuthResult(status) ==
    [kind |-> "returned", success |-> status.isAuthenticated,
     error |-> IF status.isAuthenticated THEN "none" ELSE "not-authenticated",
     exitCode |-> << >>, cancelled |-> << >>,
     authenticationRequired |-> <<~status.isAuthenticated>>,
     suggestions |-> IF status.isAuthenticated THEN {} ELSE LoginSuggestions,
     executionTime |-> FALSE, stdout |-> << >>, structuredOutput |-> <<status>>]

\* the condition under which call returns the authentication record and runs nothing
GateBlocks(authStatus, command) ==
    /\ ~authStatus.success
    /\ ~StartsWithAuthSpace(command)
    /\ ~IncludesAuthSpace(command)

\* what the two commands of the probe print in this specification
ToolListStdouts == { <<RenderList(<<"A">>)>>, <<RenderList(<< >>)>> }
ToolProjectStdouts == { << <<"P">> >> }

\* call is entered: new client, new operations, isGCloudAvailable() is awaited.  The
\* call works with an execution that no earlier call has used.
ToolStart ==
    /\ tool.pc \in {"idle", "done"}
    /\ tool.calls < MaxToolCalls
    /\ \E e \in Execs : call[e].pc = "idle"
    /\ tool' = [NoTool EXCEPT !.pc = "avail", !.calls = tool.calls + 1,
                              !.exec = IF call["e1"].pc = "idle" THEN "e1" ELSE "e2",
                              !.startedAt = now]
    /\ UNCHANGED <<prepared, probe, input, call, execution, run, now>>

\* the availability probe of call ends: the not-found record, or
\* checkAuthenticationStatus calls getAuthenticationStatus
ToolAvailDone(outcome) ==
    /\ tool.pc = "avail"
    /\ IF IsAvailable(outcome)
       THEN /\ tool' = [tool EXCEPT !.pc = "auth"]
            /\ probe' = [NoProbe EXCEPT !.pc = "listing", !.probes = probe.probes + 1]
       ELSE /\ tool' = [tool EXCEPT !.pc = "done", !.result = FacadeNotFound]
            /\ probe' = probe
    /\ UNCHANGED <<prepared, input, call, execution, run, now>>

\* the status is back: the gate, and behind it operations.executeCommand(input) up to
\* its first await
ToolAuthDone ==
    /\ tool.pc = "auth"
    /\ probe.pc = "done"
    /\ LET authStatus == CheckAuthResult(probe.result) IN
       IF GateBlocks(authStatus, input[tool.exec].command)
       THEN /\ tool' = [tool EXCEPT !.pc = "done", !.gate = "blocked",
                                    !.statusChecked = probe.result.lastChecked,
                                    !.result = authStatus]
            /\ call' = call
       ELSE /\ tool' = [tool EXCEPT !.pc = "exec",
                                    !.gate = IF authStatus.success THEN "authenticated"
                                             ELSE "authCommand",
                                    !.statusChecked = probe.result.lastChecked]
            /\ call' = FacadeStarted(tool.exec)
    /\ UNCHANGED <<prepared, probe, input, execution, run, now>>

\* operations.executeCommand returned: call yields its record
ToolExecDone ==
    /\ tool.pc = "exec"
    /\ call[tool.exec].pc = "done"
    /\ tool' = [tool EXCEPT !.pc = "done", !.result = call[tool.exec].result]
    /\ UNCHANGED <<prepared, probe, input, call, execution, run, now>>

InitTool ==
    /\ input \in [Execs -> [wd : {"none"}, command : ToolCommands,
                             preferJsonOutput : {FALSE}, format : {"auto"},
                             environment : {NoEnv}, processEnv : {NoEnv}]]
    /\ call = [e \in Execs |-> NoCall]
    /\ execution = [e \in Execs |-> NoExecution]
    /\ run = [e \in Execs |-> NoRun]
    /\ now = 1
    /\ probe = NoProbe
    /\ tool = NoTool
    /\ prepared = NoPrepared

NextTool ==
    \/ ToolStart
    \/ \E o \in AvailOutcomes : ToolAvailDone(o)
    \/ \E o \in ExecOutcomes(ToolListStdouts) : ListDone(o)
    \/ \E o \in ExecOutcomes(ToolProjectStdouts) : ProjectDone(o)
    \/ ToolAuthDone
    \/ \E e \in Execs :
           \/ \E o \in AvailOutcomes : FacadeAvailDone(e, o)
           \/ \E o \in AvailOutcomes, sp \in SpawnOutcomes : ApiAvailDone(e, o, sp, "normal")
           \/ \E code \in EndCodes(run[e]) : ProcExit(e, code)
           \/ ErrorEvent(e)
           \/ Close(e)
    \/ ToolExecDone

SpecTool == InitTool /\ [][NextTool]_vars

\* ------------------------------------------------------------- preparing a command
\* prepareCommand(input)
PrepareCommand ==
    /\ prepared.pc = "input"
    /\ prepared' = LET command == prepareCommandText(prepared.text)
                   IN  [prepared EXCEPT !.pc = "prepared", !.command = command.command,
                                        !.args = command.args,
                                        !.supportsJson = command.supportsJson]
    /\ UNCHANGED <<tool, probe, input, call, execution, run, now>>

\* apiClient.executeCommand(command) up to the end of its validation
ValidateCommand ==
    /\ prepared.pc = "prepared"
    /\ prepared' = [prepared EXCEPT !.pc = "validated",
                                    !.accepted = CommandAccepted(prepared)]
    /\ UNCHANGED <<tool, probe, input, call, execution, run, now>>

InitPrepare ==
    /\ input \in [Execs -> [wd : {"none"}, command : {ListCommand},
                             preferJsonOutput : {FALSE}, format : {"auto"},
                             environment : {NoEnv}, processEnv : {NoEnv}]]
    /\ call = [e \in Execs |-> NoCall]
    /\ execution = [e \in Execs |-> NoExecution]
    /\ run = [e \in Execs |-> NoRun]
    /\ now = 1
    /\ probe = NoProbe
    /\ tool = NoTool
    /\ prepared \in {[NoPrepared EXCEPT !.pc = "input", !.text = t] : t \in CommandTexts}

NextPrepare == PrepareCommand \/ ValidateCommand

SpecPrepare == InitPrepare /\ [][NextPrepare]_vars

\* ============================================================= claims

\* C1: every execution reaches one terminal state, once: after the status first
\* becomes Completed, Failed or Cancelled no later event (close, error, deadline,
\* cancelExecution) changes it.
C1_TerminalStateReachedOnce ==
    [][\A e \in Execs :
          IsTerminal(execution[e].status)
              => execution'[e].status = execution[e].status]_vars

\* C2: when the deadline of a Running execution (no cancellation by the caller)
\* expires, the execution is Cancelled from then on, never Completed, and a result
\* handed to the caller says cancelled = true.
C2_TimeoutEndsCancelled ==
    \A e \in Execs :
        (run[e].timer = "fired" /\ ~execution[e].cancelled)
            => /\ execution[e].status = Cancelled
               /\ call[e].result.kind = "returned" => call[e].result.cancelled = <<TRUE>>

\* C3: GCloudApiClient.executeCommand rejects only before it spawned the command:
\* once the execution entered Running every failure is inside the resolved record.
C3_RejectsOnlyBeforeSpawn ==
    \A e \in Execs : call[e].api = "rejected" => run[e].runningEntries = 0

\* C4: GCloudOperations.executeCommand never throws: a finished call has returned a
\* record, and the record says success only for a resolved, Completed execution.
C4_FacadeAlwaysReturnsRecord ==
    \A e \in Execs :
        /\ call[e].result.kind \in {"none", "returned"}
        /\ call[e].pc = "done" <=> call[e].result.kind = "returned"
        /\ (call[e].result.kind = "returned" /\ call[e].result.success)
               => (call[e].api = "resolved" /\ execution[e].status = Completed)
        /\ (call[e].pc = "done" /\ ~(call[e].api = "resolved" /\ execution[e].status = Completed))
               => ~call[e].result.success

\* a call that ended with a post-spawn failure and still returned a record
C4_Witness ==
    \E e \in Execs :
        /\ call[e].pc = "done"
        /\ call[e].api = "rejected"
        /\ call[e].apiError.message = "timed-out"
        /\ call[e].result.kind = "returned"
        /\ ~call[e].result.success

\* C5: cancelExecution on an execution whose status is terminal returns false, sends
\* no signal and leaves the record (status, cancelled, endTime, exitCode) as it was,
\* however often it is called.
C5_CancelOnTerminalIsNoOp ==
    [][\A e \in Execs :
          (IsTerminal(execution[e].status) /\ run'[e].cancels = run[e].cancels + 1)
              => /\ execution'[e] = execution[e]
                 /\ run'[e].sigterm = run[e].sigterm
                 /\ run'[e].sigkill = run[e].sigkill
                 /\ run'[e].cancelRet = "false"
                 /\ call'[e] = call[e]]_vars

\* cancelExecution was called twice on a Completed execution
C5_Witness ==
    \E e \in Execs : execution[e].status = Completed /\ run[e].cancelsOnTerminal >= 2

\* C6: the subprocess of a cancelled or timed-out execution always eventually
\* terminates, even if it ignores the graceful signal.  (Checked under FairSpec:
\* a run that refutes it ends where the program has no event left to handle, the
\* process still alive.)
C6_SubprocessEventuallyTerminates ==
    \A e \in Execs :
        ((execution[e].cancelled \/ run[e].timer = "fired") /\ run[e].proc = "alive")
            ~> (run[e].proc # "alive")

\* C7: a command whose declared working directory does not exist never enters
\* Running (no execution record, no command process), and its call fails with a
\* pre-spawn validation error.
C7_MissingWorkingDirNeverRuns ==
    \A e \in Execs :
        input[e].wd = "missing"
            => /\ execution[e].status = "absent"
               /\ call[e].pc # "running"
               /\ run[e].runningEntries = 0
               /\ run[e].proc = "none"
               /\ call[e].api # "resolved"
               /\ call[e].api = "rejected" => call[e].apiError.message \in PreSpawnMessages

\* the call of such a command was rejected for the missing working directory
C7_Witness ==
    \E e \in Execs :
        /\ input[e].wd = "missing"
        /\ call[e].api = "rejected"
        /\ call[e].apiError.message = "working-directory-missing"

\* C8: the number of OS processes one executeCommand call spawned equals the number
\* of times its execution entered Running; none for a missing working directory.
C8_SpawnCountEqualsRunningEntries ==
    \A e \in Execs :
        call[e].api \in {"resolved", "rejected"}
            => /\ call[e].apiSpawned = run[e].runningEntries
               /\ input[e].wd = "missing" => call[e].apiSpawned = 0

\* C9: once the process has closed, the execution is Completed iff the exit code
\* was 0 and no cancellation was requested, Failed for every other exit code of an
\* uncancelled run, and the result's success flag is true exactly when the
\* execution is Completed.
C9_CompletedIffExitZero ==
    \A e \in Execs :
        run[e].proc = "closed"
            => /\ execution[e].status = Completed
                    <=> (run[e].code = <<0>> /\ ~execution[e].cancelled)
               /\ (run[e].code # <<0>> /\ ~execution[e].cancelled)
                    => execution[e].status = Failed
               /\ call[e].result.kind = "returned"
                    => (call[e].result.success <=> execution[e].status = Completed)

\* C10: the k-th line appended to a stream's list carries sequence number k:
\* numbers start at 1, increase by one and are counted per stream.
C10_LineNumbersPerStream ==
    \A e \in Execs :
        /\ Len(run[e].stdoutNums) = Len(execution[e].stdout)
        /\ Len(run[e].stderrNums) = Len(execution[e].stderr)
        /\ \A k \in 1..Len(run[e].stdoutNums) : run[e].stdoutNums[k] = k
        /\ \A k \in 1..Len(run[e].stderrNums) : run[e].stderrNums[k] = k

\* both streams have captured lines, one of them two from a single chunk
C10_Witness ==
    \E e \in Execs : Len(execution[e].stdout) >= 2 /\ Len(execution[e].stderr) >= 1

\* C11: however a stream's content is cut into chunks, the lines captured for it are
\* the lines of the whole content, in order: a line that spans two chunks is one
\* captured line and a last line without terminator is captured too.
C11_LinesIndependentOfChunking ==
    \A e \in Execs :
        run[e].proc = "closed"
            => /\ execution[e].stdout = ChunkLines(run[e].stdoutRaw)
               /\ execution[e].stderr = ChunkLines(run[e].stderrRaw)

\* C12: once an execution is Completed, Failed or Cancelled nothing changes its
\* stdout, stderr, endTime, exitCode or cancelled flag; before that the two output
\* sequences only grow by appending.
C12_ImmutableOnceTerminal ==
    [][LET IsPrefix(s, t) == Len(s) <= Len(t) /\ SubSeq(t, 1, Len(s)) = s IN
       \A e \in Execs :
          /\ IsTerminal(execution[e].status)
                => /\ execution'[e].stdout = execution[e].stdout
                   /\ execution'[e].stderr = execution[e].stderr
                   /\ execution'[e].endTime = execution[e].endTime
                   /\ execution'[e].exitCode = execution[e].exitCode
                   /\ execution'[e].cancelled = execution[e].cancelled
          /\ IsPrefix(execution[e].stdout, execution'[e].stdout)
          /\ IsPrefix(execution[e].stderr, execution'[e].stderr)]_vars

\* C13: whenever one of the probe's two commands fails to run or its output fails to
\* parse, the probe returns isAuthenticated = FALSE, no accounts, no active account
\* and no default project.
C13_ProbeFailureGivesNotAuthenticated ==
    (probe.pc = "done"
        /\ (probe.first \in {"failed", "unparsed"} \/ probe.second \in {"failed", "unparsed"}))
    => /\ ~probe.result.isAuthenticated
       /\ probe.result.availableAccounts = << >>
       /\ probe.result.activeAccount = << >>
       /\ probe.result.defaultProject = << >>

\* C14: the probe returns a status with accounts, or with isAuthenticated = TRUE, only
\* when both of its steps ended Completed with output that parsed.
C14_ProbeAllOrNothing ==
    (probe.pc = "done"
        /\ (probe.result.availableAccounts # << >> \/ probe.result.isAuthenticated))
    => probe.first = "ok" /\ probe.second = "ok"

\* C15: a status with isAuthenticated = TRUE names an active account, and that account
\* is one of availableAccounts.
C15_AuthenticatedHasActiveAccount ==
    (probe.pc = "done" /\ probe.result.isAuthenticated)
    => /\ probe.result.activeAccount # << >>
       /\ \E i \in 1..Len(probe.result.availableAccounts) :
              probe.result.availableAccounts[i] = probe.result.activeAccount

\* C16: when the process of a run has exited non-zero, the run was neither cancelled
\* nor timed out and the close event has been handled: if a captured stderr line holds
\* an authentication marker, in either case of letters, the result is the
\* authentication-required failure with authenticationRequired = TRUE and the two
\* login suggestions; if no line does, the result is not authentication-required.
C16_AuthMarkerClassifies ==
    \A e \in Execs :
        LET ex == execution[e]
            res == call[e].result
            marked == \E k \in 1..Len(ex.stderr) : \E i \in 1..Len(ex.stderr[k]) :
                          ex.stderr[k][i] \in {"M", "W"}
        IN  (/\ run[e].proc = "closed"
             /\ run[e].code # << >> /\ run[e].code # <<0>>
             /\ ~ex.cancelled
             /\ run[e].timer # "fired")
            => IF marked
               THEN /\ res.kind = "returned"
                    /\ res.error = "authentication-required"
                    /\ res.authenticationRequired = <<TRUE>>
                    /\ LoginSuggestions \subseteq res.suggestions
                    /\ Cardinality(res.suggestions) >= 2
               ELSE /\ res.authenticationRequired # <<TRUE>>
                    /\ res.error # "authentication-required"

\* a run that exited with code 1 after writing the marker in upper case to stderr, and
\* whose result is the authentication failure
C16_Witness ==
    \E e \in Execs :
        /\ run[e].proc = "closed" /\ run[e].code = <<1>>
        /\ ~execution[e].cancelled /\ run[e].timer # "fired"
        /\ execution[e].stderr = << <<"W">> >>
        /\ call[e].result.authenticationRequired = <<TRUE>>

\* C17: the result of a call whose execution ended Failed carries a classified error:
\* the authentication failure when a stderr line holds a marker, the timeout when the
\* deadline expired, some other error otherwise; never no error at all.
C17_FailedCarriesClassifiedError ==
    \A e \in Execs :
        (call[e].pc = "done" /\ execution[e].status = Failed)
            => /\ call[e].result.error # "none"
               /\ run[e].timer = "fired" => call[e].result.error = "timed-out"

\* C18: the result of a run carries a classified error (an error, the
\* authenticationRequired flag or suggestions) only if its execution is Failed; the
\* result of a Completed or Cancelled execution carries none.
C18_ClassifiedErrorOnlyOnFailed ==
    \A e \in Execs :
        (/\ call[e].pc = "done"
         /\ execution[e].status # "absent"
         /\ \/ call[e].result.error # "none"
            \/ call[e].result.authenticationRequired # << >>
            \/ call[e].result.suggestions # {})
        => execution[e].status = Failed

\* C19: a command that supports JSON and has no format flag among its arguments is
\* spawned with its arguments and one "--format=json" after them; a command with a
\* "--format=" argument is spawned with its arguments as they are; two calls with
\* equal commands are spawned with equal argument lists.
C19_FormatInjectedOnce ==
    \A e \in Execs :
        LET command == prepareCommand(input[e])
            flagged == \E i \in 1..Len(command.args) : command.args[i] \in FormatFlags
        IN  run[e].spawnArgs # << >>
            => /\ (command.supportsJson /\ ~flagged)
                      => run[e].spawnArgs[1] = Append(command.args, "--format=json")
               /\ flagged => run[e].spawnArgs[1] = command.args
               /\ \A f \in Execs :
                      (run[f].spawnArgs # << >> /\ input[f] = input[e])
                          => run[f].spawnArgs = run[e].spawnArgs

\* C20: in the result built from the execution a run resolved with, for a command
\* that supports JSON: structuredOutput is the parse of the stdout lines joined
\* together when there is a line and the text parses, and is absent otherwise; either
\* way success says whether the execution is Completed and stdout holds the captured
\* lines.
C20_StructuredOutputIsParseOfJoinedStdout ==
    \A e \in Execs :
        LET ex == execution[e]
            res == call[e].result
            parsed == JsonParse(Join(ex.stdout))
        IN  (/\ call[e].pc = "done" /\ call[e].api = "resolved"
             /\ prepareCommand(input[e]).supportsJson)
            => /\ res.structuredOutput =
                      (IF ex.stdout # << >> /\ parsed # << >> THEN parsed ELSE << >>)
               /\ res.success = (ex.status = Completed)
               /\ res.stdout = <<ex.stdout>>

\* a Completed run that printed "[" and "]" on two lines: structuredOutput is the
\* empty list
C20_Witness ==
    \E e \in Execs :
        /\ call[e].pc = "done" /\ call[e].api = "resolved"
        /\ prepareCommand(input[e]).supportsJson
        /\ execution[e].status = Completed
        /\ execution[e].stdout = << <<"[">>, <<"]">> >>
        /\ call[e].result.structuredOutput = <<JsonArray(<< >>)>>
        /\ call[e].result.success

\* C21: the environment given to spawn has, for every name of the input's
\* environment, the input's value, and for every other name of the process
\* environment the value of the process; it has no other name; and no step changes
\* the environment of the process.
C21_EnvironmentIsCallerOverriddenBySpec ==
    [][\A e \in Execs :
          /\ input'[e].processEnv = input[e].processEnv
          /\ run'[e].spawnEnv # << >>
                => LET env == run'[e].spawnEnv[1]
                       spec == input[e].environment
                       caller == input[e].processEnv
                   IN  /\ DOMAIN env = DOMAIN spec \cup DOMAIN caller
                       /\ \A k \in DOMAIN spec : env[k] = spec[k]
                       /\ \A k \in DOMAIN caller \ DOMAIN spec : env[k] = caller[k]]_vars

\* a spawn with a name that both environments define, with different values
C21_Witness ==
    \E e \in Execs :
        /\ run[e].spawnEnv # << >>
        /\ "PATH" \in DOMAIN input[e].environment \cap DOMAIN input[e].processEnv
        /\ input[e].environment["PATH"] # input[e].processEnv["PATH"]
        /\ "CLOUDSDK_CORE_PROJECT" \in DOMAIN input[e].processEnv \ DOMAIN input[e].environment

\* C22: with two runs in progress, every event changes the call, the execution record
\* and the closure (timer, counters, buffers) of one run only, and the lines each run
\* captured are numbered 1, 2, ... per stream as they are for a run alone.
C22_RunsDoNotInterfere ==
    [][/\ \A e, f \in Execs :
             (e # f /\ <<call'[e], execution'[e], run'[e]>> # <<call[e], execution[e], run[e]>>)
                 => <<call'[f], execution'[f], run'[f]>> = <<call[f], execution[f], run[f]>>
       /\ \A e \in Execs :
             /\ run'[e].stdoutNums = [k \in 1..Len(execution'[e].stdout) |-> k]
             /\ run'[e].stderrNums = [k \in 1..Len(execution'[e].stderr) |-> k]]_vars

\* both runs captured a line, one timed out and the other was cancelled
C22_Witness ==
    /\ run["e1"].timer = "fired" /\ execution["e1"].stdout # << >>
    /\ execution["e2"].cancelled /\ execution["e2"].stderr # << >>
    /\ run["e1"].proc = "closed" /\ run["e2"].proc = "closed"

\* C23: the result of a call whose run ended by its deadline has executionTime and
\* has the stdout lines captured by then.
C23_TimeoutResultReportsTimeAndOutput ==
    \A e \in Execs :
        (call[e].pc = "done" /\ call[e].result.error = "timed-out")
            => /\ call[e].result.executionTime
               /\ call[e].result.stdout # << >>

\* C24: GCloudTool.call starts the executor for a command outside the auth group only
\* when the probe of that same call reported authenticated; when it did not, the call
\* ends with authenticationRequired = TRUE and the login suggestions and no
\* execution; the status the gate looks at was read after the call began.
C24_GateUsesFreshProbe ==
    LET e == tool.exec
        command == prepareCommand(input[e])
        authCommand == command.args # << >> /\ command.args[1] = "auth"
    IN  /\ (tool.gate # "none" /\ ~authCommand)
              => \/ tool.gate = "authenticated"
                 \/ /\ tool.gate = "blocked"
                    /\ call[e].pc = "idle" /\ execution[e] = NoExecution
                    /\ tool.result.authenticationRequired = <<TRUE>>
                    /\ LoginSuggestions \subseteq tool.result.suggestions
        /\ tool.gate # "none"
              => tool.statusChecked # << >> /\ tool.statusChecked[1] >= tool.startedAt

\* C25: the format of the input decides on JSON output: with "raw" the arguments given
\* to spawn are those of the command, nothing injected; with "json" or "auto" a command
\* that supports JSON and has no format flag gets "--format=json" appended.
C25_FormatPreferenceControlsInjection ==
    \A e \in Execs :
        LET command == prepareCommand(input[e])
            flagged == \E i \in 1..Len(command.args) : command.args[i] \in FormatFlags
        IN  run[e].spawnArgs # << >>
            => /\ input[e].format = "raw" => run[e].spawnArgs[1] = command.args
               /\ (input[e].format \in {"json", "auto"} /\ command.supportsJson /\ ~flagged)
                      => run[e].spawnArgs[1] = Append(command.args, "--format=json")


\* C26: for every input command, what prepareCommand returns starts with
\* "gcloud " (the prefix added once when the text does not start with it, the text
\* kept as it is otherwise), its args are the tokens between the white space after
\* the prefix, supportsJson is false exactly when the first token is a non-JSON
\* command, and the validation of executeCommand accepts it.
C26_PreparedCommandIsPrefixedAndTokenised ==
    prepared.pc \in {"prepared", "validated"} =>
        LET text == prepared.text
            command == prepared.command
            rest == SubSeq(command, 3, Len(command))
            IsWs(i) == rest[i] \in WhiteSpace
            starts == {i \in 1..Len(rest) : ~IsWs(i) /\ (i = 1 \/ IsWs(i - 1))}
            EndOf(i) == CHOOSE j \in i..Len(rest) :
                            /\ \A k \in i..j : ~IsWs(k)
                            /\ j = Len(rest) \/ IsWs(j + 1)
            StartNo(n) == CHOOSE i \in starts : Cardinality({j \in starts : j < i}) = n - 1
            tokens == [n \in 1..Cardinality(starts) |->
                          SubSeq(rest, StartNo(n), EndOf(StartNo(n)))]
            hadPrefix == Len(text) >= 2 /\ text[1] = "G" /\ text[2] = " "
        IN  /\ Len(command) >= 2 /\ command[1] = "G" /\ command[2] = " "
            /\ command = IF hadPrefix THEN text ELSE <<"G", " ">> \o text
            /\ prepared.args = tokens
            /\ prepared.supportsJson = ~(Len(tokens) > 0 /\ tokens[1] = <<"v">>)
            /\ prepared.pc = "validated" => prepared.accepted


\* C27: once cancelExecution has returned true for an execution (its cancelled
\* flag is set), whatever the order of the deadline and of the close of the process,
\* the call of that execution is not rejected: when it settles it resolves, with an
\* execution that is Cancelled and cancelled, and its error is never the timeout's.
C27_CancelledCallResolvesCancelled ==
    \A e \in Execs :
        execution[e].cancelled =>
            /\ call[e].apiError # TimeoutError
            /\ call[e].api # "rejected"
            /\ call[e].api = "resolved" =>
                   /\ execution[e].status = Cancelled
                   /\ call[e].result.cancelled = <<TRUE>>


\* C28: every call of GCloudApiClient.executeCommand eventually settles, also when a
\* process it spawned never exits on its own: a call that is pending is eventually
\* resolved or rejected.
C28_EveryCallEventuallySettles ==
    \A e \in Execs :
        (call[e].api = "pending") ~> (call[e].api \in {"resolved", "rejected"})


\* C29: an execution executeCommand resolved with has a terminal status, an endTime
\* and an exitCode (none is returned Pending or Running), and cancelExecution on it
\* returns false, sends no signal and changes nothing.
C29_ResolvedExecutionIsTerminal ==
    [][\A e \in Execs :
          /\ call'[e].api = "resolved" =>
                 /\ IsTerminal(execution'[e].status)
                 /\ execution'[e].endTime # << >>
                 /\ execution'[e].exitCode # << >>
          /\ (call[e].api = "resolved" /\ run'[e].cancels = run[e].cancels + 1) =>
                 /\ run'[e].cancelRet = "false"
                 /\ run'[e].sigterm = run[e].sigterm
                 /\ execution'[e] = execution[e]]_vars

\* a call resolved with a Completed execution, and cancelExecution was then
\* called on the execution it returned
C29_Witness ==
    \E e \in Execs :
        /\ call[e].api = "resolved"
        /\ execution[e].status = Completed
        /\ run[e].cancelRet = "false"
        /\ run[e].cancelsOnTerminal >= 1

\* C30: the recorded exitCode is 0 only when the process exited with code 0: the
\* execution of a process a signal ended (no code reported) does not record 0, and
\* no execution is Failed with exitCode 0.
C30_ExitCodeZeroOnlyForExitZero ==
    \A e \in Execs :
        /\ execution[e].exitCode = <<0>> => run[e].code = <<0>>
        /\ ~(execution[e].status = Failed /\ execution[e].exitCode = <<0>>)

====
